---- MODULE Spec2Model ----
(***************************************************************************)
(* A model of mamsi/mamsi_pls.py: the MamsiPls wrapper around the MB-PLS   *)
(* estimator.  It covers estimate_lv (k-fold cross-validated curve, bend   *)
(* and plateau detection, final refit), mb_vip and mb_vip_permtest.        *)
(*                                                                         *)
(* Numbers.  Scores and thresholds are real numbers in the program.  A     *)
(* score is modelled as an integer numerator over a common positive        *)
(* denominator, a threshold as an integer number of thousandths, and every *)
(* comparison of the program is done exactly by cross-multiplication.      *)
(* IEEE rounding is not modelled; division by zero follows numpy           *)
(* (x/0 is -inf, +inf or nan), never an exception.                         *)
(*                                                                         *)
(* Python's None is the empty tuple: (None, None) is << >>, a found        *)
(* plateau is <<start, end>>; a bend that np.min cannot compute (empty     *)
(* candidate array, ValueError) is << >>, a computed bend b is <<b>>.      *)
(***************************************************************************)
EXTENDS Integers, Sequences, FiniteSets, TLC

VARIABLES
    model,   \* the MamsiPls object: n_components, copy, and the fitted state
    caller,  \* the caller-owned x and y: have they been altered in place
    pc,      \* which call is running and where it is
    elv,     \* the locals of a running estimate_lv
    perm,    \* the locals of a running mb_vip_permtest
    out,     \* what the last completed call returned or raised
    curve,   \* a score sequence handed to _find_plateau / the bend expression
    probe    \* mb_vip read before and after a change of the weight matrices

vars == <<model, caller, pc, elv, perm, out, curve, probe>>

-----------------------------------------------------------------------------
(* Bounds of the model *)

MaxLen == 4            \* longest score sequence handed to the curve functions
MaxComponents == 4     \* largest n_components argument of estimate_lv
NSamples == 5          \* observations (rows) of x and y
MaxPermutations == 2   \* largest n_permutations argument
NBlocks == 2           \* predictor blocks in x (one feature each)

(* Program constants *)

DefaultNComponents == 2      \* __init__(n_components=2)
ConsecutiveElements == 3     \* _find_plateau(consecutive_elements=3)
PlateauThreshold == 10       \* plateau_threshold=0.01, in thousandths
IncreaseThreshold == 50      \* increase_threshold=0.05, in thousandths

(* Input samples *)

CurveVals == {-1000, -500, 0, 500, 700, 710, 715}   \* scores, in thousandths
RangeThresholds == {PlateauThreshold, 5}
ScoreVals == {100, 120}      \* per-fold metric values, in thousandths
FoldCounts == {2}            \* no_fold arguments (KFold needs 2..NSamples)

-----------------------------------------------------------------------------
(* Arithmetic helpers *)

Abs(a) == IF a < 0 THEN -a ELSE a

Min(S) == CHOOSE m \in S : \A k \in S : m <= k

RECURSIVE SumSeq(_)
SumSeq(s) == IF s = << >> THEN 0 ELSE Head(s) + SumSeq(Tail(s))

-----------------------------------------------------------------------------
(* _find_plateau(scores, range_threshold, consecutive_elements=3).         *)
(* scores[k] of the program (0-based) is scores[k+1] here; den is the      *)
(* common denominator of the scores and thr the threshold in thousandths.  *)

\* abs(scores[i+j] - scores[i+j-1]) > range_threshold
DiffExceeds(scores, den, thr, i, j) ==
    Abs(scores[i + j + 1] - scores[i + j]) * 1000 > thr * den

\* the inner loop: plateau stays True iff no j in range(consecutive_elements-1) breaks
WindowIsPlateau(scores, den, thr, i) ==
    \A j \in 0..(ConsecutiveElements - 2) : ~DiffExceeds(scores, den, thr, i, j)

\* range(1, n - consecutive_elements + 1)
PlateauRange(n) == 1..(n - ConsecutiveElements)

FindPlateau(scores, den, thr) ==
    LET found == {i \in PlateauRange(Len(scores)) : WindowIsPlateau(scores, den, thr, i)}
    IN  IF found = {} THEN << >>
        ELSE <<Min(found), Min(found) + ConsecutiveElements - 1>>

-----------------------------------------------------------------------------
(* The bend of estimate_lv:                                                *)
(*   np.min(np.where(np.diff(data) / data[0] < increase_threshold)[0]) + 1 *)

\* d / s0 < thr/1000 as numpy evaluates it (the common denominator cancels):
\* for s0 = 0 the quotient is -inf (d < 0), +inf (d > 0) or nan (d = 0)
NormDiffBelow(d, s0, thr) ==
    IF s0 > 0 THEN d * 1000 < thr * s0
    ELSE IF s0 < 0 THEN d * 1000 > thr * s0
    ELSE d < 0

\* np.where(...)[0], shifted by the + 1
BendCandidates(scores, thr) ==
    {i \in 1..(Len(scores) - 1) : NormDiffBelow(scores[i + 1] - scores[i], scores[1], thr)}

\* np.min of an empty array raises ValueError: << >>
Bend(scores, thr) ==
    IF BendCandidates(scores, thr) = {} THEN << >>
    ELSE <<Min(BendCandidates(scores, thr))>>

-----------------------------------------------------------------------------
(* The object before any call *)

NoFit == [fitted |-> FALSE, x |-> "none", rows |-> {}, y |-> "none", nc |-> 0,
          W_ |-> << >>, P_ |-> << >>, Ts_ |-> << >>, V_ |-> << >>]

NoLocals == [op |-> "none"]

InitObject ==
    /\ model \in [n_components : {DefaultNComponents}, copy : BOOLEAN, fit : {NoFit}]
    /\ caller = [x_altered |-> FALSE, y_altered |-> FALSE]
    /\ pc = "idle"
    /\ elv = NoLocals
    /\ perm = NoLocals
    /\ out = NoLocals

-----------------------------------------------------------------------------
(* The curve functions on their own: every score sequence up to MaxLen     *)

ScoreSeqs == UNION {[1..n -> CurveVals] : n \in 1..MaxLen}

InitCurve ==
    /\ InitObject
    /\ model.copy = TRUE
    /\ curve \in [scores : ScoreSeqs, den : {1000}, range_threshold : RangeThresholds,
                  increase_threshold : {IncreaseThreshold},
                  plateau : {<<0>>}, bend : {<<0, 0>>}]
    /\ probe = NoLocals

\* plateau_range_start, plateau_range_end = self._find_plateau(data, range_threshold=...)
CurveFindPlateau ==
    /\ curve.plateau = <<0>>
    /\ curve' = [curve EXCEPT !.plateau = FindPlateau(curve.scores, curve.den, curve.range_threshold)]
    /\ UNCHANGED <<model, caller, pc, elv, perm, out, probe>>

\* bend = np.min(...) + 1
CurveBend ==
    /\ curve.bend = <<0, 0>>
    /\ curve' = [curve EXCEPT !.bend = Bend(curve.scores, curve.increase_threshold)]
    /\ UNCHANGED <<model, caller, pc, elv, perm, out, probe>>

NextCurve == CurveFindPlateau \/ CurveBend

SpecCurve == InitCurve /\ [][NextCurve]_vars

-----------------------------------------------------------------------------
(* The MB-PLS engine (mbpls.MBPLS, the base class).  fit() replaces the    *)
(* learned state in place; what it learns is not computed here: the engine *)
(* answers with one of a few weight patterns.  With copy=False the engine  *)
(* "might alter the input data".                                           *)

AllObs == 1..NSamples

\* weights pattern g: feature (block) g carries all the weight, g = 0 none
EngineResult(nc, nrows, g) ==
    [W_  |-> [b \in 1..NBlocks |-> <<[c \in 1..nc |-> IF b = g THEN 1 ELSE 0]>>],
     P_  |-> [b \in 1..NBlocks |-> <<[c \in 1..nc |-> 1]>>],
     Ts_ |-> [r \in 1..nrows |-> [c \in 1..nc |-> 1]],
     V_  |-> <<[c \in 1..nc |-> 1]>>]

EngineSample(nc, nrows) == {EngineResult(nc, nrows, g) : g \in 0..NBlocks}

\* self.fit(x, y) / self.fit_transform(x, y): trains in place with self.n_components
EngineFit(m, x, rows, y, res) ==
    [m EXCEPT !.fit = [fitted |-> TRUE, x |-> x, rows |-> rows, y |-> y,
                       nc |-> m.n_components,
                       W_ |-> res.W_, P_ |-> res.P_, Ts_ |-> res.Ts_, V_ |-> res.V_]]

\* copy=False: "Not using a copy might alter the input data"
MayAlter(c, m, x, y) ==
    {[x_altered |-> xa, y_altered |-> ya] :
        xa \in (IF ~m.copy /\ x = "caller_x" THEN {c.x_altered, TRUE} ELSE {c.x_altered}),
        ya \in (IF ~m.copy /\ y = "caller_y" THEN {c.y_altered, TRUE} ELSE {c.y_altered})}

-----------------------------------------------------------------------------
(* KFold(n_splits=no_fold).split(response_y): consecutive folds, the first *)
(* n % k of them one longer; observations are numbered from 1 here.        *)

FoldSize(n, k, j) == (n \div k) + (IF j <= n % k THEN 1 ELSE 0)

RECURSIVE FoldStart(_, _, _)
FoldStart(n, k, j) == IF j = 1 THEN 1 ELSE FoldStart(n, k, j - 1) + FoldSize(n, k, j - 1)

TestIndices(n, k, j) == FoldStart(n, k, j)..(FoldStart(n, k, j) + FoldSize(n, k, j) - 1)

TrainIndices(n, k, j) == (1..n) \ TestIndices(n, k, j)

-----------------------------------------------------------------------------
(* estimate_lv *)

AllowedContinuous == {"q2"}
AllowedCategorical == {"auc", "precision", "recall", "f1", "accuracy"}
MetricInputs == {"q2", "auc", "mse"}

\* the validation of the metric: the metric used, or "ValueError"
ValidatedMetric(y_continuous, metric) ==
    IF y_continuous
    THEN LET m == "q2" IN IF m \notin AllowedContinuous THEN "ValueError" ELSE m
    ELSE IF metric \notin AllowedCategorical THEN "ValueError" ELSE metric

\* the columns of perf_scores
TableColumns(y_continuous) ==
    IF y_continuous THEN {"r2", "q2"}
    ELSE {"Training AUC", "Training Precision", "Training Recall", "Training F1 Score",
          "Training Accuracy", "Testing AUC", "Testing Precision", "Testing Recall",
          "Testing F1 Score", "Testing Accuracy"}

\* the call: x.copy(), check_array(y), and the arguments as passed
EstimateLvCall ==
    /\ pc = "idle"
    /\ \E N \in 1..MaxComponents, K \in FoldCounts, yc \in BOOLEAN,
          metric \in MetricInputs, gs \in BOOLEAN :
          elv' = [op |-> "estimate_lv", N |-> N, K |-> K, y_continuous |-> yc,
                  metric |-> metric, get_scores |-> gs,
                  i |-> 1, j |-> 1, lv |-> << >>, rows |-> << >>]
    /\ pc' = "elv_validate"
    /\ UNCHANGED <<model, caller, perm, out, curve, probe>>

\* "Validation in parameter inputs": raise ValueError or go on with the metric
ElvValidate ==
    /\ pc = "elv_validate"
    /\ LET vm == ValidatedMetric(elv.y_continuous, elv.metric) IN
       IF vm = "ValueError"
       THEN /\ out' = [op |-> "estimate_lv", status |-> "ValueError", at |-> "validation",
                       y_continuous |-> elv.y_continuous, requested |-> elv.metric]
            /\ pc' = "done"
            /\ elv' = NoLocals
       ELSE /\ elv' = [elv EXCEPT !.metric = vm]
            /\ pc' = "elv_cv"
            /\ UNCHANGED out
    /\ UNCHANGED <<model, caller, perm, curve, probe>>

\* one pass of the inner loop (fold j of component count i); the last fold of a
\* count also appends the row of means, the last fold of the last count ends the loops
ElvFold ==
    /\ pc = "elv_cv"
    /\ LET train == TrainIndices(NSamples, elv.K, elv.j)
           test == TestIndices(NSamples, elv.K, elv.j)
           m1 == [model EXCEPT !.n_components = elv.i]
       IN \E res \in EngineSample(elv.i, Cardinality(train)), v \in ScoreVals :
            LET m2 == EngineFit(m1, "train_data", train, "response_y[train]", res)
                entry == [nc |-> m2.fit.nc, fitted_on |-> m2.fit.rows,
                          train_scored |-> train, test_scored |-> test, q |-> v]
                lv == Append(elv.lv, entry)
                row == [n |-> elv.i, columns |-> TableColumns(elv.y_continuous),
                        folds |-> [k \in 1..Len(lv) |-> [lv[k] EXCEPT !.q = 0]],
                        q_sum |-> SumSeq([k \in 1..Len(lv) |-> lv[k].q]),
                        q_count |-> Len(lv)]
            IN /\ model' = m2
               /\ IF elv.j < elv.K
                  THEN /\ elv' = [elv EXCEPT !.j = elv.j + 1, !.lv = lv]
                       /\ pc' = pc
                  ELSE /\ elv' = [elv EXCEPT !.i = elv.i + 1, !.j = 1, !.lv = << >>,
                                             !.rows = Append(elv.rows, row)]
                       /\ pc' = IF elv.i < elv.N THEN "elv_cv" ELSE "elv_select"
    /\ UNCHANGED <<caller, perm, out, curve, probe>>

\* the try block raises TypeError exactly when plateau_range_start is None
TryRaisesTypeError(plateau) == plateau = << >>

\* a slip: the bend is used even when a plateau was found
SelectedCountBendFirst(bend, plateau) == bend[1]

\* self.n_components = plateau_range_start (try) / bend (except TypeError)
SelectedCount(bend, plateau) ==
    IF TryRaisesTypeError(plateau) THEN bend[1] ELSE plateau[1]

\* print('No plateau detected, consider exploring more latent variables.')
Advisory(plateau) == TryRaisesTypeError(plateau)

\* a slip: the closing refit is given what the last fold was fitted on
RefitDataLastFold == [x |-> model.fit.x, rows |-> model.fit.rows, y |-> model.fit.y]

\* the data the closing self.fit(x, y) is given
RefitData == [x |-> "caller_x", rows |-> AllObs, y |-> "caller_y"]

\* after the loops: the table, the chosen metric's test curve, bend, plateau, refit
ElvSelect ==
    /\ pc = "elv_select"
    /\ LET data == [k \in 1..Len(elv.rows) |-> elv.rows[k].q_sum]
           den == elv.rows[1].q_count * 1000
           bend == Bend(data, IncreaseThreshold)
           plateau == FindPlateau(data, den, PlateauThreshold)
       IN IF bend = << >>
          THEN /\ out' = [op |-> "estimate_lv", status |-> "ValueError", at |-> "bend",
                          N |-> elv.N, K |-> elv.K, get_scores |-> elv.get_scores,
                          data |-> data]
               /\ UNCHANGED <<model, caller>>
          ELSE LET sel == SelectedCount(bend, plateau)
                   m1 == [model EXCEPT !.n_components = sel]
               IN \E res \in EngineSample(sel, NSamples) :
                    /\ model' = EngineFit(m1, RefitData.x, RefitData.rows, RefitData.y, res)
                    /\ caller' \in MayAlter(caller, m1, RefitData.x, RefitData.y)
                    /\ out' = [op |-> "estimate_lv", status |-> "returned",
                               N |-> elv.N, K |-> elv.K, get_scores |-> elv.get_scores,
                               y_continuous |-> elv.y_continuous, metric |-> elv.metric,
                               data |-> data, bend |-> bend, plateau |-> plateau,
                               selected |-> sel, advisory |-> Advisory(plateau),
                               value |-> IF elv.get_scores THEN elv.rows ELSE << >>]
    /\ pc' = "done"
    /\ elv' = NoLocals
    /\ UNCHANGED <<perm, curve, probe>>

-----------------------------------------------------------------------------
(* mb_vip.  A VIP score is sqrt(num/den); it is kept as the pair of the    *)
(* radicand so that scores compare exactly.  den = 0 is 0/0, a nan.        *)

\* np.vstack(blocks): the rows of all blocks, in block order
RECURSIVE VStack(_)
VStack(blocks) == IF blocks = << >> THEN << >> ELSE Head(blocks) \o VStack(Tail(blocks))

\* np.sum(m ** 2, axis=0)[c]
ColumnSumSquares(m, c) == SumSeq([r \in 1..Len(m) |-> m[r][c] * m[r][c]])

\* sum_squares = np.sum(self.Ts_ ** 2, axis=0) * np.sum(self.V_ ** 2, axis=0)
SumSquares(fit) ==
    [c \in 1..Len(fit.Ts_[1]) |-> ColumnSumSquares(fit.Ts_, c) * ColumnSumSquares(fit.V_, c)]

\* a slip: the weights are not squared
WeightTermUnsquared(w) == w

\* weights ** 2, one entry
WeightTerm(w) == w * w

\* vip_scores = np.sqrt(p * np.sum(sum_squares * (weights ** 2), axis=1) / np.sum(sum_squares))
MbVip(fit) ==
    LET weights == VStack(fit.W_)
        sum_squares == SumSquares(fit)
        p == Len(VStack(fit.P_))
    IN  [f \in 1..Len(weights) |->
            [num |-> p * SumSeq([c \in 1..Len(sum_squares) |->
                                    sum_squares[c] * WeightTerm(weights[f][c])]),
             den |-> SumSeq(sum_squares)]]

\* a nan: 0/0, or the square root of a negative radicand
IsNan(v) == v.den = 0 \/ v.num < 0

\* a >= b on two scores, as IEEE compares (False when either is nan)
VipGeq(a, b) == ~IsNan(a) /\ ~IsNan(b) /\ a.num * b.den >= b.num * a.den

-----------------------------------------------------------------------------
(* mb_vip_permtest *)

\* a slip: > for >=
VipStrictlyGreater(vip_obs, vip_null, f) ==
    Cardinality({t \in 1..Len(vip_null) :
        VipGeq(vip_null[t][f], vip_obs[f]) /\ ~VipGeq(vip_obs[f], vip_null[t][f])})

\* vip_greater = np.sum(vip_null >= vip_obs, axis=1), one feature
VipGreater(vip_obs, vip_null, f) ==
    Cardinality({t \in 1..Len(vip_null) : VipGeq(vip_null[t][f], vip_obs[f])})

\* a slip: the observed score is counted as one more trial in the numerator only
PValsAddOne(vip_obs, vip_null, n_permutations) ==
    [f \in 1..Len(vip_obs) |->
        [num |-> Cardinality({t \in 1..Len(vip_null) : VipGeq(vip_null[t][f], vip_obs[f])}) + 1,
         den |-> n_permutations]]

\* p_vals = vip_greater / n_permutations, kept as the fraction num/den
PVals(vip_obs, vip_null, n_permutations) ==
    [f \in 1..Len(vip_obs) |->
        [num |-> VipGreater(vip_obs, vip_null, f), den |-> n_permutations]]

\* the blocks object handed to the permuted refit: self.fit(x, y_perm)
PermFitX == "caller_x"

\* a slip: the refit is given the unpermuted response copy _y
PermFitYUnpermuted == "y_copy"

\* the response handed to the permuted refit: y_perm = np.random.permutation(_y)
PermFitY == "y_perm"

\* check_is_fitted, the copies, the observed MB-VIP; with n_permutations = 0 the
\* loop is empty and np.stack of no arrays raises ValueError
MbVipPermtestCall ==
    /\ pc = "idle"
    /\ \E M \in 0..MaxPermutations, rs \in BOOLEAN :
         IF ~model.fit.fitted
         THEN /\ out' = [op |-> "mb_vip_permtest", status |-> "NotFittedError"]
              /\ pc' = "done"
              /\ UNCHANGED perm
         ELSE IF M = 0
         THEN /\ out' = [op |-> "mb_vip_permtest", status |-> "ValueError"]
              /\ pc' = "done"
              /\ UNCHANGED perm
         ELSE /\ perm' = [op |-> "mb_vip_permtest", n_permutations |-> M,
                          return_scores |-> rs, i |-> 0,
                          x_copy |-> [of |-> "caller_x", altered |-> caller.x_altered],
                          y_copy |-> [of |-> "caller_y", altered |-> caller.y_altered],
                          entry |-> [n_components |-> model.n_components,
                                     fit |-> model.fit,
                                     caller |-> caller],
                          vip_obs |-> MbVip(model.fit), vip_null |-> << >>,
                          fit_x |-> << >>, fit_nc |-> << >>]
              /\ pc' = "perm_loop"
              /\ UNCHANGED out
    /\ UNCHANGED <<model, caller, elv, curve, probe>>

\* one pass of the loop; the last pass also computes the p-values and returns
PermStep ==
    /\ pc = "perm_loop"
    /\ \E res \in EngineSample(model.n_components, NSamples) :
         LET m2 == EngineFit(model, PermFitX, AllObs, PermFitY, res)
             nulls == Append(perm.vip_null, MbVip(m2.fit))
             fit_x == Append(perm.fit_x, PermFitX)
             fit_nc == Append(perm.fit_nc, m2.fit.nc)
             p_vals == PVals(perm.vip_obs, nulls, perm.n_permutations)
         IN /\ model' = m2
            /\ caller' \in MayAlter(caller, model, PermFitX, PermFitY)
            /\ IF perm.i + 1 < perm.n_permutations
               THEN /\ perm' = [perm EXCEPT !.i = perm.i + 1, !.vip_null = nulls,
                                            !.fit_x = fit_x, !.fit_nc = fit_nc]
                    /\ UNCHANGED <<pc, out>>
               ELSE /\ out' = [op |-> "mb_vip_permtest", status |-> "returned",
                               n_permutations |-> perm.n_permutations,
                               entry |-> perm.entry, x_copy |-> perm.x_copy,
                               vip_obs |-> perm.vip_obs, vip_null |-> nulls,
                               fit_x |-> fit_x, fit_nc |-> fit_nc, p_vals |-> p_vals,
                               value |-> IF perm.return_scores THEN <<p_vals, nulls>>
                                         ELSE <<p_vals>>]
                    /\ pc' = "done"
                    /\ perm' = NoLocals
    /\ UNCHANGED <<elv, curve, probe>>

\* mb_vip() called by the user: check_is_fitted, then the scores
UserMbVip ==
    /\ pc = "idle"
    /\ out' = IF model.fit.fitted
              THEN [op |-> "mb_vip", status |-> "returned", value |-> MbVip(model.fit)]
              ELSE [op |-> "mb_vip", status |-> "NotFittedError"]
    /\ pc' = "done"
    /\ UNCHANGED <<model, caller, elv, perm, curve, probe>>

\* the inherited fit(x, y), called by the user with the object's n_components
UserFit ==
    /\ pc = "idle"
    /\ \E res \in EngineSample(model.n_components, NSamples) :
         /\ model' = EngineFit(model, "caller_x", AllObs, "caller_y", res)
         /\ caller' \in MayAlter(caller, model, "caller_x", "caller_y")
    /\ out' = [op |-> "fit", status |-> "returned"]
    /\ pc' = "done"
    /\ UNCHANGED <<elv, perm, curve, probe>>

\* the call is over: control is back with the caller, who drops the result
CallerResumes ==
    /\ pc = "done"
    /\ pc' = "idle"
    /\ out' = NoLocals
    /\ UNCHANGED <<model, caller, elv, perm, curve, probe>>

-----------------------------------------------------------------------------
(* mb_vip on its own: a fitted model with any weight, super-score and      *)
(* y-loading matrices of the default two components, read by mb_vip()      *)
(* before and after its block weight matrices are changed.                 *)

WVals == {-1, 0, 2}
TVals == {0, 1, 2}
VVals == {1, 2}

Components == 1..DefaultNComponents

FittedStates ==
    [fitted : {TRUE}, x : {"caller_x"}, rows : {AllObs}, y : {"caller_y"},
     nc : {DefaultNComponents},
     W_  : [1..NBlocks -> [1..1 -> [Components -> WVals]]],
     P_  : {[b \in 1..NBlocks |-> <<[c \in Components |-> 1]>>]},
     Ts_ : [1..1 -> [Components -> TVals]],
     V_  : [1..1 -> [Components -> VVals]]]

InitVip ==
    /\ model \in [n_components : {DefaultNComponents}, copy : {TRUE}, fit : FittedStates]
    /\ caller = [x_altered |-> FALSE, y_altered |-> FALSE]
    /\ pc = "idle"
    /\ elv = NoLocals
    /\ perm = NoLocals
    /\ out = NoLocals
    /\ curve = NoLocals
    /\ probe = [stage |-> "fitted"]

\* every block weight matrix multiplied by -1
Negated(W) == [b \in DOMAIN W |-> [f \in DOMAIN W[b] |->
                  [c \in DOMAIN W[b][f] |-> -W[b][f][c]]]]

\* the component (column) order of every block weight matrix reversed
ColumnsReversed(W) == [b \in DOMAIN W |-> [f \in DOMAIN W[b] |->
                          [c \in DOMAIN W[b][f] |-> W[b][f][Len(W[b][f]) + 1 - c]]]]

\* mb_vip() of the model as fitted
ProbeRead ==
    /\ probe.stage = "fitted"
    /\ probe' = [stage |-> "read", W0 |-> model.fit.W_, before |-> MbVip(model.fit)]
    /\ UNCHANGED <<model, caller, pc, elv, perm, out, curve>>

\* W_ := -W_, then mb_vip()
ProbeNegate ==
    /\ probe.stage = "read"
    /\ model' = [model EXCEPT !.fit.W_ = Negated(model.fit.W_)]
    /\ probe' = [stage |-> "negated", W0 |-> probe.W0, before |-> probe.before,
                 negated |-> MbVip(model'.fit)]
    /\ UNCHANGED <<caller, pc, elv, perm, out, curve>>

\* the columns of W_ reordered while Ts_ and V_ keep their order, then mb_vip()
ProbePermute ==
    /\ probe.stage = "negated"
    /\ model' = [model EXCEPT !.fit.W_ = ColumnsReversed(model.fit.W_)]
    /\ probe' = [stage |-> "permuted", W0 |-> probe.W0, before |-> probe.before,
                 negated |-> probe.negated, permuted |-> MbVip(model'.fit)]
    /\ UNCHANGED <<caller, pc, elv, perm, out, curve>>

NextVip == ProbeRead \/ ProbeNegate \/ ProbePermute

SpecVip == InitVip /\ [][NextVip]_vars

-----------------------------------------------------------------------------
(* The object in use: any sequence of calls *)

Init ==
    /\ InitObject
    /\ curve = NoLocals
    /\ probe = NoLocals

Next ==
    \/ UserFit
    \/ EstimateLvCall
    \/ ElvValidate
    \/ ElvFold
    \/ ElvSelect
    \/ MbVipPermtestCall
    \/ PermStep
    \/ UserMbVip
    \/ CallerResumes

Spec == Init /\ [][Next]_vars

-----------------------------------------------------------------------------
(* Properties *)

\* the windows of 3 consecutive scores, anywhere in the sequence, whose adjacent
\* pairs all differ by at most thr
FlatWindows(scores, den, thr) ==
    {i \in 1..(Len(scores) - 2) :
        \A k \in i..(i + 1) : Abs(scores[k + 1] - scores[k]) * 1000 <= thr * den}

\* C1: _find_plateau returns the (start, end) of the lowest-indexed window of 3
\* consecutive scores whose adjacent pairs differ by at most range_threshold, and
\* (None, None) exactly when no such window exists anywhere in the sequence, the
\* window of the last 3 scores included.
C1_PlateauIsLowestFlatWindow ==
    curve.plateau # <<0>> =>
        LET flat == FlatWindows(curve.scores, curve.den, curve.range_threshold)
        IN  curve.plateau = IF flat = {} THEN << >> ELSE <<Min(flat), Min(flat) + 2>>

\* C2: the bend is 1 + the smallest 0-based i with (s[i+1] - s[i]) / s[0] below
\* increase_threshold; it is 2 for [0.5, 0.7, 0.71, 0.715] at 0.05, and it is 1 for
\* every sequence whose first step is a decrease, whatever the sign of s[0].
C2_BendIsFirstSmallIncreaseOrDecrease ==
    curve.bend # <<0, 0>> =>
        /\ curve.bend # << >> =>
              /\ curve.bend[1] \in BendCandidates(curve.scores, curve.increase_threshold)
              /\ \A i \in BendCandidates(curve.scores, curve.increase_threshold) :
                    curve.bend[1] <= i
        /\ (curve.scores = <<500, 700, 710, 715>> /\ curve.increase_threshold = 50)
              => curve.bend = <<2>>
        /\ (Len(curve.scores) >= 2 /\ curve.scores[2] < curve.scores[1])
              => curve.bend = <<1>>

EstimateLvReturned == pc = "done" /\ out.op = "estimate_lv" /\ out.status = "returned"

\* C3: when _find_plateau returns a start index the count selected and assigned to
\* the model is that start, whatever the bend, and no advisory is printed; when it
\* returns (None, None) the count is the bend and the advisory is printed.
C3_PlateauPreferredOverBend ==
    EstimateLvReturned =>
        IF out.plateau # << >>
        THEN /\ out.selected = out.plateau[1]
             /\ model.n_components = out.plateau[1]
             /\ ~out.advisory
        ELSE /\ out.selected = out.bend[1]
             /\ model.n_components = out.bend[1]
             /\ out.advisory

\* a plateau was found and the bend lies elsewhere
C3_Witness ==
    /\ EstimateLvReturned
    /\ out.plateau # << >>
    /\ out.bend[1] # out.plateau[1]
    /\ model.n_components = out.plateau[1]

\* C4: on every normal return of estimate_lv the last fit is one on the full x and
\* y, the model's n_components is the selected count, and that count is in 1..N.
C4_ReturnLeavesFullRefit ==
    EstimateLvReturned =>
        /\ model.fit.fitted
        /\ model.fit.x = "caller_x" /\ model.fit.y = "caller_y"
        /\ model.fit.rows = AllObs
        /\ model.n_components = out.selected
        /\ model.fit.nc = out.selected
        /\ out.selected \in 1..out.N

\* a return by the bend, at a count above 1, after folds that were fitted
C4_Witness ==
    /\ EstimateLvReturned
    /\ out.plateau = << >>
    /\ out.selected > 1
    /\ out.N = MaxComponents

\* C5: estimate_lv raises ValueError for every metric outside the allowed set of the
\* declared outcome type (continuous: anything but q2; categorical: anything outside
\* auc, precision, recall, f1, accuracy), before any fold fit and leaving the model
\* as it was.
C5_InvalidMetricRaises ==
    [][(/\ pc = "elv_validate"
        /\ \/ elv.y_continuous /\ elv.metric \notin AllowedContinuous
           \/ ~elv.y_continuous /\ elv.metric \notin AllowedCategorical)
       => /\ pc' = "done"
          /\ out'.status = "ValueError"
          /\ model' = model]_vars

\* an estimate_lv call whose arguments passed the validation is over
EstimateLvOver ==
    /\ pc = "done"
    /\ out.op = "estimate_lv"
    /\ (out.status = "ValueError" => out.at = "bend")

\* C6: for every N >= 1 and fold count K, estimate_lv with get_scores = True yields
\* a table of exactly N rows, row c carrying count c and the mean of exactly K
\* per-fold metrics, each from a model fitted with n_components = c on the fold's
\* training indices only, scored on them and on the disjoint test indices.
C6_TableHasOneRowPerCount ==
    (EstimateLvOver /\ out.get_scores) =>
        /\ out.status = "returned"
        /\ Len(out.value) = out.N
        /\ \A c \in 1..Len(out.value) :
              LET row == out.value[c] IN
              /\ row.n = c
              /\ row.q_count = out.K /\ Len(row.folds) = out.K
              /\ \A k \in 1..Len(row.folds) :
                    LET e == row.folds[k] IN
                    /\ e.nc = c
                    /\ e.fitted_on = e.train_scored
                    /\ e.train_scored \cap e.test_scored = {}
                    /\ e.train_scored \cup e.test_scored = AllObs
                    /\ e.test_scored # {} /\ e.train_scored # {}

PermtestReturned == pc = "done" /\ out.op = "mb_vip_permtest" /\ out.status = "returned"

\* the null trials whose VIP at feature f is at least the observed VIP at f
NullsAtLeast(f) ==
    {t \in 1..Len(out.vip_null) :
        out.vip_null[t][f].num * out.vip_obs[f].den
            >= out.vip_obs[f].num * out.vip_null[t][f].den}

\* C7: p[f] = (number of the M null trials whose VIP at f is >= the observed VIP at
\* f) / M; it is 0 when the observed VIP exceeds all M null values and 1 when the
\* observed VIP is <= every null value.
C7_PValueIsNullFraction ==
    PermtestReturned =>
        /\ Len(out.vip_null) = out.n_permutations
        /\ \A f \in 1..Len(out.vip_obs) :
              /\ out.p_vals[f].den = out.n_permutations
              /\ out.p_vals[f].num = Cardinality(NullsAtLeast(f))
              /\ NullsAtLeast(f) = {} => out.p_vals[f].num = 0
              /\ NullsAtLeast(f) = 1..out.n_permutations
                    => out.p_vals[f].num = out.p_vals[f].den

\* one feature dominates every null trial, another is reached by all of them, and a
\* third case: a null trial ties with the observed score
C7_Witness ==
    /\ PermtestReturned
    /\ out.n_permutations = MaxPermutations
    /\ \E f \in 1..Len(out.vip_obs) :
          out.p_vals[f].num = 0 /\ out.vip_obs[f].num > 0
    /\ \E f \in 1..Len(out.vip_obs) :
          /\ out.p_vals[f].num = out.n_permutations
          /\ \E t \in 1..Len(out.vip_null) : out.vip_null[t][f] = out.vip_obs[f]

\* C8 as stated: every p-value lies in [1/n_permutations, 1].
C8_PValueAtLeastOneOverM ==
    PermtestReturned =>
        \A f \in 1..Len(out.p_vals) :
            /\ out.p_vals[f].num >= 1
            /\ out.p_vals[f].num <= out.p_vals[f].den

\* C8 as amended: every p-value is k / n_permutations for an integer k in
\* 0..n_permutations, so it lies in [0, 1]; 0 is reached.
C8_PValueInUnitInterval ==
    PermtestReturned =>
        \A f \in 1..Len(out.p_vals) :
            /\ out.p_vals[f].den = out.n_permutations
            /\ out.p_vals[f].den >= 1
            /\ out.p_vals[f].num \in 0..out.p_vals[f].den

\* a returned p-value of exactly 0 next to one of exactly 1
C8_Witness ==
    /\ PermtestReturned
    /\ \E f \in 1..Len(out.p_vals) : out.p_vals[f].num = 0
    /\ \E f \in 1..Len(out.p_vals) : out.p_vals[f].num = out.p_vals[f].den

\* C9: every permuted refit is given the deep copy of the blocks, never the caller's
\* own object, and the caller's x and y are as they were when the call returns.
C9_RefitsUseDeepCopy ==
    PermtestReturned =>
        /\ \A k \in 1..Len(out.fit_x) : out.fit_x[k] = "x_copy"
        /\ caller = out.entry.caller

\* two VIP scores are the same number (two nans count as the same)
VipSame(a, b) ==
    IF IsNan(a) \/ IsNan(b) THEN IsNan(a) /\ IsNan(b)
    ELSE a.num * b.den = b.num * a.den

\* the weight of feature f on component c, as fitted
W0(f, c) == VStack(probe.W0)[f][c]

\* C10: mb_vip is unchanged when every block weight matrix is multiplied by -1, and
\* it is not in general unchanged when the columns of W are reordered against T and
\* V: with two components, feature f keeps its score exactly when the two component
\* weights sum_squares agree or its two squared weights agree (or the score is nan).
C10_SignInvariantNotOrderInvariant ==
    /\ probe.stage \in {"negated", "permuted"} =>
          \A f \in 1..Len(probe.before) : VipSame(probe.negated[f], probe.before[f])
    /\ probe.stage = "permuted" =>
          LET ss == SumSquares(model.fit) IN
          \A f \in 1..Len(probe.before) :
              VipSame(probe.permuted[f], probe.before[f])
                  <=> \/ ss[1] = ss[2]
                      \/ W0(f, 1) * W0(f, 1) = W0(f, 2) * W0(f, 2)

\* nonzero weights were negated without effect, and reordering the columns changed
\* the score of a feature
C10_Witness ==
    /\ probe.stage = "permuted"
    /\ \E f \in 1..Len(probe.before) :
          /\ W0(f, 1) # 0
          /\ ~IsNan(probe.before[f])
          /\ VipSame(probe.negated[f], probe.before[f])
          /\ ~VipSame(probe.permuted[f], probe.before[f])

\* C11: component-count selection never fails for lack of a qualifying index: for
\* every test-fold score sequence of length N >= 1 the call falls back to a bend
\* when no plateau is found, refits and returns normally instead of raising, and it
\* never ends with the model fitted on a single fold's training partition.
C11_SelectionNeverFails ==
    EstimateLvOver =>
        /\ out.status = "returned"
        /\ model.fit.x = "caller_x"
        /\ model.fit.rows = AllObs

\* a permutation test is in its loop or has just returned; its locals
PermtestSeen == pc = "perm_loop" \/ PermtestReturned
PermtestLocals == IF pc = "perm_loop" THEN perm ELSE out

\* C12: the observed VIP vector is read once from the model as it was at entry and
\* all M comparisons use it; every refit uses the n_components of entry, which the
\* call leaves unchanged; after a call with M >= 1 the model holds the fit to the
\* last permuted response, so a following mb_vip() reads a null model.
C12_ObservedOnceModelLeftOnLastNull ==
    /\ PermtestSeen =>
          /\ PermtestLocals.vip_obs = MbVip(PermtestLocals.entry.fit)
          /\ model.n_components = PermtestLocals.entry.n_components
          /\ \A k \in 1..Len(PermtestLocals.fit_nc) :
                PermtestLocals.fit_nc[k] = PermtestLocals.entry.n_components
          /\ Len(PermtestLocals.vip_null) >= 1 =>
                /\ model.fit.y = "y_perm"
                /\ MbVip(model.fit) = PermtestLocals.vip_null[Len(PermtestLocals.vip_null)]
    /\ PermtestReturned =>
          /\ Len(out.fit_nc) = out.n_permutations
          /\ \A f \in 1..Len(out.p_vals) :
                out.p_vals[f].num =
                    Cardinality({t \in 1..out.n_permutations :
                        VipGeq(out.vip_null[t][f], MbVip(out.entry.fit)[f])})
    /\ (pc = "done" /\ out.op = "mb_vip" /\ out.status = "returned") =>
          out.value = MbVip(model.fit)

\* a second permutation test has returned whose observed scores came from the null
\* model the first one left behind, and they differ from the last null it fitted
C12_Witness ==
    /\ PermtestReturned
    /\ out.n_permutations = MaxPermutations
    /\ out.entry.fit.y = "y_perm"
    /\ out.vip_obs # MbVip(model.fit)
    /\ model.fit.y = "y_perm"

====
